---- MODULE Spec2Model ----
(***************************************************************************)
(* Menu navigation and line input of git_helper.py.                        *)
(*                                                                         *)
(* The program is single threaded and blocks only in stdscr.getch(), so a  *)
(* state of the model is a point where the program waits for a key (or has *)
(* exited) and an action is one key event together with all the code that  *)
(* runs until the next getch(): the handler code, the commands it hands to *)
(* run_command (whose results are chosen by the environment), the return   *)
(* to the menu loop and the loop's update of current_row.                  *)
(*                                                                         *)
(* Text is a sequence of code points, so chr(ch) is <<ch>>.  The header    *)
(* of the menus is a display-only read and is not part of the state; the   *)
(* short-status snippet of the menus is modelled on its own (SpecRedraw).  *)
(***************************************************************************)
EXTENDS Integers, Sequences, FiniteSets, TLC

VARIABLES
    pc,           \* where the program waits: "main", "advanced", "input", "ack", "exit"
    main_row,     \* current_row of main_menu
    adv_row,      \* current_row of advanced_menu, NoFrame while advanced_menu is not running
    main_result,  \* local `result` of main_menu: "unbound", "True" or "False"
    adv_result,   \* local `result` of advanced_menu
    handler,      \* the action handler that is running, "none" in a menu
    prompt,       \* the prompt get_user_input is serving, "none" outside it
    input_str,    \* buffer of get_user_input
    echo,         \* terminal echo as set by curses.echo() / curses.noecho()
    rets,         \* history: values returned by get_user_input in the current or last handler invocation
    typed,        \* history: the keys read by the current or last get_user_input call
    title,        \* create_issue: the confirmed title while the body is prompted
    repo_name,    \* create_github_repo: the confirmed name while visibility is prompted
    issued,       \* history: run_command calls of the current or last handler invocation
    screen,       \* status lines the running handler has drawn since stdscr.clear()
    key,          \* history: the key the last getch() returned
    nav_base,     \* history: current_row when the present run of Up/Down keys began
    nav_up,       \* history: Up keys in the present run
    nav_down,     \* history: Down keys in the present run
    exit_code,    \* exit status of the process, NoExit while it runs
    endwin,       \* curses.endwin() has been called
    curses_LINES, \* curses.LINES, the height of the screen
    status_lines, \* the lines of `git status --short` at the last redraw of a menu
    drawn,        \* the rows at which that redraw drew status lines
    esc_run,      \* history: how many Escape keys in a row the last keys were
    adv_left      \* history: current_row of advanced_menu when it last returned, kept while
                  \* the main menu is then only navigated, up to the first key after re-entry

vars == <<pc, main_row, adv_row, main_result, adv_result, handler, prompt,
          input_str, echo, rets, typed, title, repo_name, issued, screen, key,
          nav_base, nav_up, nav_down, exit_code, endwin,
          curses_LINES, status_lines, drawn, esc_run, adv_left>>

redraw_vars == <<curses_LINES, status_lines, drawn>>

----------------------------------------------------------------------------
(* Bounds of the model *)

\* keys one input session may read before it must be ended
MaxKeys == 2
\* keys one input session may read in the specification of the input collector alone
MaxTyped == 4
\* length of a run of Up/Down keys that the history variables follow
MaxNav == 5
\* longest run of Escape keys that esc_run counts
MaxEsc == 5
\* largest screen height
MaxLines == 24
\* most lines `git status --short` prints
MaxStatus == 5

----------------------------------------------------------------------------
(* Key codes *)

KEY_ESC == 27
KEY_LF == 10
KEY_CR == 13
KEY_DEL == 127
KEY_BS == 8
KEY_DOWN == 258
KEY_UP == 259
KEY_LEFT == 260
KEY_RIGHT == 261
KEY_BACKSPACE == 263
KEY_ENTER == 343
CH_SPACE == 32
CH_a == 97
CH_b == 98
CH_c == 99
CH_y == 121

NoKey == 0
NoFrame == -1
NoExit == -1

\* keys the menus are driven with
MenuKeys == {KEY_ESC, KEY_LEFT, KEY_UP, KEY_DOWN, KEY_ENTER, KEY_LF, KEY_CR,
             KEY_RIGHT, CH_a}
\* keys a handler's final getch is driven with
AckKeys == {KEY_ESC, KEY_LF}
\* keys the prompts are driven with inside the whole program
PromptKeys == {KEY_ESC, KEY_LEFT, KEY_LF, KEY_BACKSPACE, CH_y, CH_SPACE}
\* keys the input collector is driven with on its own
WideKeys == {KEY_ESC, KEY_LEFT, KEY_LF, KEY_CR, KEY_BACKSPACE, KEY_DEL,
             CH_a, CH_b, CH_c, CH_SPACE, KEY_UP}

----------------------------------------------------------------------------
(* Text *)

None == [none |-> TRUE, str |-> <<>>]
Str(s) == [none |-> FALSE, str |-> s]

\* code points for which str.isspace() holds (those below 256)
Whitespace == {9, 10, 11, 12, 13, 28, 29, 30, 31, 32, 133, 160}

RECURSIVE lstrip(_)
lstrip(s) == IF s # <<>> /\ Head(s) \in Whitespace THEN lstrip(Tail(s)) ELSE s

RECURSIVE rstrip(_)
rstrip(s) == IF s # <<>> /\ s[Len(s)] \in Whitespace
             THEN rstrip(SubSeq(s, 1, Len(s) - 1)) ELSE s

strip(s) == rstrip(lstrip(s))

lower(s) == [i \in 1..Len(s) |-> IF s[i] \in 65..90 THEN s[i] + 32 ELSE s[i]]

chr(ch) == <<ch>>

\* "auto commit"
AutoCommit == <<97, 117, 116, 111, 32, 99, 111, 109, 109, 105, 116>>

----------------------------------------------------------------------------
(* get_user_input: one iteration of its read loop on key ch with buffer buf. *)
(* done: the loop has ended; value: what the call returns then.             *)

\* a cancel that hands back what was typed
MutCancelKeepsBuffer(buf) == [done |-> TRUE, value |-> Str(strip(buf)), buf |-> buf]

CancelInput(buf) == [done |-> TRUE, value |-> None, buf |-> buf]

EnterInput(buf) == [done |-> TRUE, value |-> Str(strip(buf)), buf |-> buf]

\* a backspace that only moves the cursor
MutBackspaceKeepsBuffer(buf) == [done |-> FALSE, value |-> None, buf |-> buf]

BackspaceInput(buf) ==
    [done |-> FALSE, value |-> None,
     buf |-> IF Len(buf) > 0 THEN SubSeq(buf, 1, Len(buf) - 1) ELSE buf]

AppendInput(buf, ch) == [done |-> FALSE, value |-> None, buf |-> buf \o chr(ch)]

InputStep(buf, ch) ==
    IF ch \in {KEY_ESC, KEY_LEFT} THEN CancelInput(buf)
    ELSE IF ch \in {KEY_LF, KEY_CR} THEN EnterInput(buf)
    ELSE IF ch \in {KEY_BACKSPACE, KEY_DEL, KEY_BS} THEN BackspaceInput(buf)
    ELSE AppendInput(buf, ch)

----------------------------------------------------------------------------
(* run_command: the (output, return code) pairs it can return: success, the  *)
(* failure git reports for an empty commit, and any other failure (a command *)
(* that fails, or the except branch, which returns (str(e), 1)).             *)

OutNothing == "nothing to commit, working tree clean"

RunResults ==
    { [out |-> "", code |-> 0],
      [out |-> OutNothing, code |-> 1],
      [out |-> "fatal: unable to access remote", code |-> 1] }

\* "nothing to commit" in out.lower()
HasNothingToCommit(out) == out = OutNothing

----------------------------------------------------------------------------
(* What a handler has done so far: the commands it issued, the status lines *)
(* it drew and the inputs it holds.                                         *)

EmptyCtx == [issued |-> <<>>, screen |-> <<>>, title |-> None, repo_name |-> None]

Cmd(template, args) == [template |-> template, args |-> args]

run_command(c, cmd, r) ==
    [c EXCEPT !.issued = Append(@, [cmd |-> cmd, out |-> r.out, code |-> r.code])]

addstr(c, row, text, attr) ==
    [c EXCEPT !.screen = Append(@, [row |-> row, text |-> text, attr |-> attr])]

\* the two lines every failing step draws: an error line and the raw output
addError(c, row, text, out) == addstr(addstr(c, row, text, "pair3"), row + 1, out, "pair3")

(* Where a handler stops: at a prompt, at its final getch, or at its return *)
WaitInput(c, p) == [kind |-> "input", prompt |-> p, value |-> "unbound", ctx |-> c]
WaitAck(c) == [kind |-> "ack", prompt |-> "none", value |-> "unbound", ctx |-> c]
Return(c, v) == [kind |-> "return", prompt |-> "none", value |-> v, ctx |-> c]

----------------------------------------------------------------------------
(* Action handlers.  X_begin is the handler from its call to its first      *)
(* getch; X_<prompt> is the handler from the return of that prompt to its   *)
(* next getch or its return.                                                *)

\* no default message
MutNoDefaultMessage(commit_msg) == commit_msg

\* `if commit_msg == "": commit_msg = "auto commit"`
CommitMessage(commit_msg) == IF commit_msg = <<>> THEN AutoCommit ELSE commit_msg

\* an empty commit reported like any other failure
MutCommitStatusNoBenign(c, r) ==
    IF r.code = 0 THEN addstr(c, 8, "Changes committed.", "pair4")
    ELSE addError(c, 8, "Error during commit:", r.out)

\* the status a commit step draws at row 8
CommitStatus(c, r) ==
    IF r.code = 0 THEN addstr(c, 8, "Changes committed.", "pair4")
    ELSE IF HasNothingToCommit(r.out) THEN addstr(c, 8, "Nothing to commit.", "pair3")
    ELSE addError(c, 8, "Error during commit:", r.out)

StageAndCommit(c, commit_msg, r1, r2) ==
    LET c1 == addstr(c, 6, "Staging all files...", "A_BOLD")
        c2 == run_command(c1, Cmd("git add -A", <<>>), r1)
        c3 == addstr(c2, 7, "Committing changes...", "A_BOLD")
        c4 == run_command(c3, Cmd("git commit -m \"{}\"", <<commit_msg>>), r2)
    IN  CommitStatus(c4, r2)

PushStep(c, row, r) ==
    LET c1 == run_command(c, Cmd("git push", <<>>), r)
    IN  IF r.code = 0 THEN addstr(c1, row, "Push successful.", "pair4")
        ELSE addError(c1, row, "Error during push:", r.out)

PullStep(c, row, r) ==
    LET c1 == run_command(c, Cmd("git pull", <<>>), r)
    IN  IF r.code = 0 THEN addstr(c1, row, "Pull successful.", "pair4")
        ELSE addError(c1, row, "Error during pull:", r.out)

PressAnyKey(c, row) == WaitAck(addstr(c, row, "Press any key to continue...", "normal"))

commit_and_push_all_begin(c) == {WaitInput(c, "commit_msg")}

\* a push that is skipped when the commit failed
MutNoPushAfterFailedCommit(c, commit_msg) ==
    IF commit_msg.none THEN {Return(c, "False")}
    ELSE { IF r2.code = 0
           THEN PressAnyKey(
                  PushStep(addstr(StageAndCommit(c, CommitMessage(commit_msg.str), r1, r2),
                                  10, "Pushing changes...", "A_BOLD"), 11, r3), 14)
           ELSE PressAnyKey(StageAndCommit(c, CommitMessage(commit_msg.str), r1, r2), 14)
           : r1 \in RunResults, r2 \in RunResults, r3 \in RunResults }

commit_and_push_all_msg(c, commit_msg) ==
    IF commit_msg.none THEN {Return(c, "False")}
    ELSE { PressAnyKey(
             PushStep(addstr(StageAndCommit(c, CommitMessage(commit_msg.str), r1, r2),
                             10, "Pushing changes...", "A_BOLD"), 11, r3), 14)
           : r1 \in RunResults, r2 \in RunResults, r3 \in RunResults }

pull_all(c) ==
    { PressAnyKey(PullStep(addstr(c, 4, "Pulling changes from remote...", "A_BOLD"), 6, r), 9)
      : r \in RunResults }

\* only the cancelled title is refused
MutTitleOnlyNone(t) == t.none

\* `if title is None or title == "": return False`
TitleMissing(t) == t.none \/ t.str = <<>>

create_issue_begin(c) == {WaitInput(c, "title")}

create_issue_title(c, t) ==
    IF TitleMissing(t) THEN {Return(c, "False")}
    ELSE {WaitInput([c EXCEPT !.title = t], "body")}

\* `if body:` is false for None and for ""
BodyGiven(body) == ~body.none /\ body.str # <<>>

create_issue_body(c, body) ==
    LET cmd == IF BodyGiven(body)
               THEN Cmd("gh issue create --title \"{}\" --body \"{}\"", <<c.title.str, body.str>>)
               ELSE Cmd("gh issue create --title \"{}\"", <<c.title.str>>)
        c1 == addstr(c, 8, "Creating issue...", "A_BOLD")
    IN  { PressAnyKey(
            LET c2 == run_command(c1, cmd, r)
            IN  IF r.code = 0 THEN addstr(c2, 10, "Issue created successfully.", "pair4")
                ELSE addError(c2, 10, "Error creating issue:", r.out), 13)
          : r \in RunResults }

\* the status the initial commit draws at row 6
InitialCommitStatus(c, r) ==
    IF r.code # 0
    THEN IF HasNothingToCommit(r.out)
         THEN addstr(c, 6, "Nothing to commit, proceeding...", "pair3")
         ELSE addError(c, 6, "Error during commit:", r.out)
    ELSE addstr(c, 6, "Initial commit created.", "pair4")

\* isdir: os.path.isdir('.git')
create_github_repo_begin(c) ==
    {Return(c, "False")} \cup
    { LET c1 == addstr(c, 4, "Staging all files...", "A_BOLD")
          c2 == run_command(c1, Cmd("git add -A", <<>>), r1)
          c3 == addstr(c2, 5, "Creating initial commit...", "A_BOLD")
          c4 == run_command(c3, Cmd("git commit -m 'Initial commit'", <<>>), r2)
      IN  WaitInput(InitialCommitStatus(c4, r2), "repo_name")
      : r1 \in RunResults, r2 \in RunResults }

\* `if repo_name is None or repo_name == "": return False`
RepoNameMissing(n) == n.none \/ n.str = <<>>

create_github_repo_name(c, n) ==
    IF RepoNameMissing(n) THEN {Return(c, "False")}
    ELSE {WaitInput([c EXCEPT !.repo_name = n], "vis_input")}

\* "--private" if vis_input.strip().lower() == "y" else "--public"
Private(vis_input) == lower(strip(vis_input)) = <<CH_y>>

create_github_repo_vis(c, vis_input) ==
    IF vis_input.none THEN {Return(c, "False")}
    ELSE LET private == Private(vis_input.str)
             cmd == Cmd(IF private
                        THEN "gh repo create {} --private --source=. --remote=origin --push --confirm"
                        ELSE "gh repo create {} --public --source=. --remote=origin --push --confirm",
                        <<c.repo_name.str>>)
             c1 == addstr(c, 12, IF private THEN "Creating GitHub repository '{}' as private..."
                                 ELSE "Creating GitHub repository '{}' as public...", "A_BOLD")
         IN  { PressAnyKey(
                 LET c2 == run_command(c1, cmd, r)
                 IN  IF r.code = 0
                     THEN addstr(c2, 14, "GitHub repository created and pushed successfully.", "pair4")
                     ELSE addError(c2, 14, "Error creating GitHub repository:", r.out), 17)
               : r \in RunResults }

add_files_begin(c) == {WaitInput(c, "pattern")}

\* the cancelled pattern is taken as blank
MutPatternNeverCancelled(pattern) == FALSE

\* `if pattern is None: return False`
PatternCancelled(pattern) == pattern.none

add_files_pattern(c, pattern) ==
    IF PatternCancelled(pattern) THEN {Return(c, "False")}
    ELSE LET cmd == IF pattern.str = <<>> THEN Cmd("git add -A", <<>>)
                    ELSE Cmd("git add {}", <<pattern.str>>)
         IN  { PressAnyKey(
                 LET c1 == run_command(c, cmd, r)
                 IN  IF r.code = 0 THEN addstr(c1, 6, "Files added successfully.", "pair4")
                     ELSE addError(c1, 6, "Error adding files:", r.out), 9)
               : r \in RunResults }

commit_changes_begin(c) == {WaitInput(c, "commit_msg")}

commit_changes_msg(c, commit_msg) ==
    IF commit_msg.none THEN {Return(c, "False")}
    ELSE { PressAnyKey(StageAndCommit(c, CommitMessage(commit_msg.str), r1, r2), 11)
           : r1 \in RunResults, r2 \in RunResults }

push_repo(c) ==
    { PressAnyKey(PushStep(addstr(c, 4, "Pushing changes to remote...", "A_BOLD"), 6, r), 9)
      : r \in RunResults }

pull_repo(c) ==
    { PressAnyKey(PullStep(addstr(c, 4, "Pulling changes from remote...", "A_BOLD"), 6, r), 9)
      : r \in RunResults }

\* git_status, view_log, show_diff: the output is drawn from row `row` on,
\* whatever the return code; the drawn lines are kept as one entry
ShowOutput(c, command, row) ==
    { PressAnyKey(addstr(run_command(c, Cmd(command, <<>>), r), row, r.out, "normal"), row + 2)
      : r \in RunResults }

git_status(c) == ShowOutput(c, "git status", 4)

view_log(c) ==
    ShowOutput(addstr(c, 4, "Recent commit log (last 10 commits):", "A_BOLD"),
               "git log --oneline -n 10", 6)

show_diff(c) == ShowOutput(addstr(c, 4, "Diff:", "A_BOLD"), "git diff", 6)

----------------------------------------------------------------------------
(* Menus *)

menu_options == <<"Commit & Push all", "Pull all", "Create Issue", "Advanced menu">>

adv_options ==
    <<"Create GitHub Repository", "Add Files", "Commit Changes", "Push to Remote",
      "Pull from Remote", "Git Status", "Create Issue", "View Log", "Show Diff",
      "Back to Main Menu">>

\* the option below the highlighted one
MutSelectedNext(options, row) == options[((row + 1) % Len(options)) + 1]

\* `selected = menu_options[current_row]`
Selected(options, row) == options[row + 1]

\* the function the if/elif chain of a menu calls for a label
HandlerOf(selected) ==
    CASE selected = "Commit & Push all" -> "commit_and_push_all"
      [] selected = "Pull all" -> "pull_all"
      [] selected = "Create Issue" -> "create_issue"
      [] selected = "Create GitHub Repository" -> "create_github_repo"
      [] selected = "Add Files" -> "add_files"
      [] selected = "Commit Changes" -> "commit_changes"
      [] selected = "Push to Remote" -> "push_repo"
      [] selected = "Pull from Remote" -> "pull_repo"
      [] selected = "Git Status" -> "git_status"
      [] selected = "View Log" -> "view_log"
      [] selected = "Show Diff" -> "show_diff"

\* handler h from its call to its first getch or its return
Begin(h, c) ==
    CASE h = "commit_and_push_all" -> commit_and_push_all_begin(c)
      [] h = "pull_all" -> pull_all(c)
      [] h = "create_issue" -> create_issue_begin(c)
      [] h = "create_github_repo" -> create_github_repo_begin(c)
      [] h = "add_files" -> add_files_begin(c)
      [] h = "commit_changes" -> commit_changes_begin(c)
      [] h = "push_repo" -> push_repo(c)
      [] h = "pull_repo" -> pull_repo(c)
      [] h = "git_status" -> git_status(c)
      [] h = "view_log" -> view_log(c)
      [] h = "show_diff" -> show_diff(c)

\* handler h from the return of its prompt p with value r
AfterInput(h, p, c, r) ==
    CASE h = "commit_and_push_all" -> commit_and_push_all_msg(c, r)
      [] h = "commit_changes" -> commit_changes_msg(c, r)
      [] h = "add_files" -> add_files_pattern(c, r)
      [] h = "create_issue" /\ p = "title" -> create_issue_title(c, r)
      [] h = "create_issue" /\ p = "body" -> create_issue_body(c, r)
      [] h = "create_github_repo" /\ p = "repo_name" -> create_github_repo_name(c, r)
      [] h = "create_github_repo" /\ p = "vis_input" -> create_github_repo_vis(c, r)

\* only Left goes back
MutBackOnlyLeft(k) == k = KEY_LEFT

\* only Escape goes back
MutBackOnlyEscape(k) == k = KEY_ESC

\* `if key in (27, curses.KEY_LEFT)`
IsBackKey(k) == k \in {KEY_ESC, KEY_LEFT}

\* `key in (curses.KEY_ENTER, 10, 13, curses.KEY_RIGHT)`
IsConfirmKey(k) == k \in {KEY_ENTER, KEY_LF, KEY_CR, KEY_RIGHT}

\* Up that stops at the first option
MutMoveUpNoWrap(row, n) == IF row = 0 THEN 0 ELSE row - 1

\* `current_row = (current_row - 1) % len(options)`
MoveUp(row, n) == (row - 1) % n

\* Down that runs past the last option
MutMoveDownNoWrap(row, n) == row + 1

\* `current_row = (current_row + 1) % len(options)`
MoveDown(row, n) == (row + 1) % n

\* the row is reset whatever the handler returned
MutResetAlways(result, row) == 0

\* `if result: current_row = 0`
ResetRow(result, row) == IF result = "True" THEN 0 ELSE row

\* the submenu reported as not completed
MutAdvancedMenuFalse == "False"

\* main_menu: `advanced_menu(stdscr); result = True`
AdvancedMenuResult == "True"

InAdvanced == adv_row # NoFrame

Ctx == [issued |-> issued, screen |-> screen, title |-> title, repo_name |-> repo_name]

\* the history of Up/Down keys starts again at the row the active menu shows
NavRestart ==
    /\ nav_base' = IF adv_row' # NoFrame THEN adv_row' ELSE main_row'
    /\ nav_up' = 0
    /\ nav_down' = 0

\* one more Up (up = 1) or Down (up = 0) key in the menu whose row was `row`
NavCount(row, up) ==
    IF nav_up + nav_down < MaxNav
    THEN /\ nav_base' = nav_base
         /\ nav_up' = nav_up + up
         /\ nav_down' = nav_down + (1 - up)
    ELSE /\ nav_base' = row
         /\ nav_up' = up
         /\ nav_down' = 1 - up

(* The running handler h has reached o: it waits at a prompt (get_user_input *)
(* has set up its buffer and echo), waits for the acknowledgment key, or    *)
(* has returned o.value to the menu loop that called it, which redraws.     *)
Proceed(h, o) ==
    /\ issued' = o.ctx.issued
    /\ IF o.kind = "return"
       THEN /\ pc' = IF InAdvanced THEN "advanced" ELSE "main"
            /\ handler' = "none"
            /\ screen' = <<>>
            /\ title' = None
            /\ repo_name' = None
            /\ IF InAdvanced
               THEN /\ adv_result' = o.value
                    /\ adv_row' = ResetRow(o.value, adv_row)
                    /\ UNCHANGED <<main_row, main_result>>
               ELSE /\ main_result' = o.value
                    /\ main_row' = ResetRow(o.value, main_row)
                    /\ UNCHANGED <<adv_row, adv_result>>
       ELSE /\ pc' = o.kind
            /\ handler' = h
            /\ screen' = o.ctx.screen
            /\ title' = o.ctx.title
            /\ repo_name' = o.ctx.repo_name
            /\ UNCHANGED <<main_row, main_result, adv_row, adv_result>>
    /\ prompt' = o.prompt
    /\ input_str' = <<>>
    /\ echo' = (o.kind = "input")
    /\ NavRestart
    /\ UNCHANGED <<exit_code, endwin>>

\* the run of consecutive Escape keys that ends with key k, after a run of n
EscRun(k, n) == IF k = KEY_ESC THEN (IF n < MaxEsc THEN n + 1 ELSE n) ELSE 0

\* main_menu returns and curses.wrapper(main) ends curses; the process ends with status 0
wrapper_exit == [endwin |-> TRUE, code |-> 0]

\* a handler that exits without ending curses
MutSignalNoEndwin == [endwin |-> FALSE, code |-> 0]

\* signal_handler: `curses.endwin(); sys.exit(0)`
signal_exit == [endwin |-> TRUE, code |-> 0]

----------------------------------------------------------------------------
(* Actions *)

Init ==
    /\ pc = "main"
    /\ main_row = 0
    /\ adv_row = NoFrame
    /\ main_result = "unbound"
    /\ adv_result = "unbound"
    /\ handler = "none"
    /\ prompt = "none"
    /\ input_str = <<>>
    /\ echo = FALSE
    /\ rets = <<>>
    /\ typed = <<>>
    /\ title = None
    /\ repo_name = None
    /\ issued = <<>>
    /\ screen = <<>>
    /\ key = NoKey
    /\ nav_base = 0
    /\ nav_up = 0
    /\ nav_down = 0
    /\ exit_code = NoExit
    /\ endwin = FALSE
    /\ curses_LINES = MaxLines
    /\ status_lines = <<>>
    /\ drawn = <<>>
    /\ esc_run = 0
    /\ adv_left = NoFrame

\* a menu key that calls no handler: only the menu's own variables change
MenuOnly ==
    /\ handler' = "none"
    /\ prompt' = "none"
    /\ input_str' = <<>>
    /\ echo' = FALSE
    /\ title' = None
    /\ repo_name' = None
    /\ issued' = <<>>
    /\ screen' = <<>>

\* advanced_menu starts where it was last left
MutEntryAtLastRow(last) == IF last = NoFrame THEN 0 ELSE last

\* advanced_menu: `current_row = 0` on every call, whatever row it last returned at
EntryRow(last) == 0

\* the keys on which advanced_menu returns: back, or confirm on "Back to Main Menu"
Leaves(k, row) ==
    IsBackKey(k) \/ (IsConfirmKey(k) /\ Selected(adv_options, row) = "Back to Main Menu")

\* the keys of main_menu that navigate or enter advanced_menu
Follows(k, row) ==
    \/ k \in {KEY_UP, KEY_DOWN}
    \/ ~IsBackKey(k) /\ IsConfirmKey(k) /\ Selected(menu_options, row) = "Advanced menu"

\* main_menu: the key `k` arrives at its getch
main_menu(k) ==
    /\ pc = "main"
    /\ adv_left' = IF Follows(k, main_row) THEN adv_left ELSE NoFrame
    /\ UNCHANGED redraw_vars
    /\ key' = k
    /\ esc_run' = EscRun(k, esc_run)
    /\ rets' = <<>>
    /\ typed' = <<>>
    /\ IF IsBackKey(k)
       THEN /\ pc' = "exit"
            /\ exit_code' = wrapper_exit.code
            /\ endwin' = wrapper_exit.endwin
            /\ MenuOnly
            /\ UNCHANGED <<main_row, main_result, adv_row, adv_result>>
            /\ NavRestart
       ELSE IF k = KEY_UP
       THEN /\ main_row' = MoveUp(main_row, Len(menu_options))
            /\ MenuOnly
            /\ UNCHANGED <<pc, main_result, adv_row, adv_result, exit_code, endwin>>
            /\ NavCount(main_row, 1)
       ELSE IF k = KEY_DOWN
       THEN /\ main_row' = MoveDown(main_row, Len(menu_options))
            /\ MenuOnly
            /\ UNCHANGED <<pc, main_result, adv_row, adv_result, exit_code, endwin>>
            /\ NavCount(main_row, 0)
       ELSE IF IsConfirmKey(k)
       THEN IF Selected(menu_options, main_row) = "Advanced menu"
            THEN /\ pc' = "advanced"
                 /\ adv_row' = EntryRow(adv_left)
                 /\ adv_result' = "unbound"
                 /\ MenuOnly
                 /\ UNCHANGED <<main_row, main_result, exit_code, endwin>>
                 /\ NavRestart
            ELSE \E o \in Begin(HandlerOf(Selected(menu_options, main_row)), EmptyCtx) :
                     Proceed(HandlerOf(Selected(menu_options, main_row)), o)
       ELSE /\ MenuOnly
            /\ UNCHANGED <<pc, main_row, main_result, adv_row, adv_result, exit_code, endwin>>
            /\ NavRestart

\* advanced_menu returns to main_menu, which sets result and resets its row
LeaveAdvanced ==
    /\ pc' = "main"
    /\ adv_row' = NoFrame
    /\ adv_result' = "unbound"
    /\ main_result' = AdvancedMenuResult
    /\ main_row' = ResetRow(AdvancedMenuResult, main_row)
    /\ MenuOnly
    /\ UNCHANGED <<exit_code, endwin>>
    /\ NavRestart

\* advanced_menu: the key `k` arrives at its getch
advanced_menu(k) ==
    /\ pc = "advanced"
    /\ adv_left' = IF Leaves(k, adv_row) THEN adv_row ELSE NoFrame
    /\ UNCHANGED redraw_vars
    /\ key' = k
    /\ esc_run' = EscRun(k, esc_run)
    /\ rets' = <<>>
    /\ typed' = <<>>
    /\ IF IsBackKey(k)
       THEN LeaveAdvanced
       ELSE IF k = KEY_UP
       THEN /\ adv_row' = MoveUp(adv_row, Len(adv_options))
            /\ MenuOnly
            /\ UNCHANGED <<pc, main_row, main_result, adv_result, exit_code, endwin>>
            /\ NavCount(adv_row, 1)
       ELSE IF k = KEY_DOWN
       THEN /\ adv_row' = MoveDown(adv_row, Len(adv_options))
            /\ MenuOnly
            /\ UNCHANGED <<pc, main_row, main_result, adv_result, exit_code, endwin>>
            /\ NavCount(adv_row, 0)
       ELSE IF IsConfirmKey(k)
       THEN IF Selected(adv_options, adv_row) = "Back to Main Menu"
            THEN LeaveAdvanced
            ELSE \E o \in Begin(HandlerOf(Selected(adv_options, adv_row)), EmptyCtx) :
                     Proceed(HandlerOf(Selected(adv_options, adv_row)), o)
       ELSE /\ MenuOnly
            /\ UNCHANGED <<pc, main_row, main_result, adv_row, adv_result, exit_code, endwin>>
            /\ NavRestart

\* get_user_input: the key `ch` arrives at its getch; a session reads at most
\* `max` keys before the key that ends it
get_user_input(ch, max) ==
    /\ pc = "input"
    /\ UNCHANGED adv_left
    /\ UNCHANGED redraw_vars
    /\ key' = ch
    /\ esc_run' = EscRun(ch, esc_run)
    /\ LET s == InputStep(input_str, ch)
       IN  IF s.done
           THEN /\ rets' = Append(rets, s.value)
                /\ \E o \in AfterInput(handler, prompt, Ctx, s.value) :
                       /\ Proceed(handler, o)
                       /\ typed' = IF o.kind = "input" THEN <<>> ELSE Append(typed, ch)
           ELSE /\ Len(typed) < max
                /\ typed' = Append(typed, ch)
                /\ input_str' = s.buf
                /\ UNCHANGED <<pc, main_row, adv_row, main_result, adv_result, handler,
                               prompt, echo, rets, title, repo_name, issued, screen,
                               nav_base, nav_up, nav_down, exit_code, endwin>>

\* a handler's final `stdscr.getch(); return True`
acknowledge(k) ==
    /\ pc = "ack"
    /\ UNCHANGED adv_left
    /\ UNCHANGED redraw_vars
    /\ key' = k
    /\ esc_run' = EscRun(k, esc_run)
    /\ UNCHANGED <<rets, typed>>
    /\ Proceed(handler, Return(Ctx, "True"))

\* signal_handler: curses.endwin(); sys.exit(0)
signal_handler ==
    /\ pc # "exit"
    /\ UNCHANGED redraw_vars
    /\ pc' = "exit"
    /\ exit_code' = signal_exit.code
    /\ endwin' = signal_exit.endwin
    /\ key' = NoKey
    /\ UNCHANGED <<esc_run, adv_left>>
    /\ UNCHANGED <<main_row, adv_row, main_result, adv_result, handler, prompt,
                   input_str, echo, rets, typed, title, repo_name, issued, screen,
                   nav_base, nav_up, nav_down>>

MainMenuKey == \E k \in MenuKeys : main_menu(k)
AdvancedMenuKey == \E k \in MenuKeys : advanced_menu(k)
PromptKey == \E ch \in PromptKeys : get_user_input(ch, MaxKeys)
AckKey == \E k \in AckKeys : acknowledge(k)
Signal == signal_handler

Next == MainMenuKey \/ AdvancedMenuKey \/ PromptKey \/ AckKey \/ Signal

Spec == Init /\ [][Next]_vars

----------------------------------------------------------------------------
(* The input collector on its own: the program waits at the prompt of        *)
(* add_files, called from the advanced menu, and only get_user_input runs.   *)

InitInput ==
    /\ pc = "input"
    /\ main_row = 3
    /\ adv_row = 1
    /\ handler = "add_files"
    /\ prompt = "pattern"
    /\ main_result = "unbound"
    /\ adv_result = "unbound"
    /\ input_str = <<>>
    /\ echo = TRUE
    /\ rets = <<>>
    /\ typed = <<>>
    /\ title = None
    /\ repo_name = None
    /\ issued = <<>>
    /\ screen = <<>>
    /\ key = KEY_LF
    /\ nav_base = 1
    /\ nav_up = 0
    /\ nav_down = 0
    /\ exit_code = NoExit
    /\ endwin = FALSE
    /\ curses_LINES = MaxLines
    /\ status_lines = <<>>
    /\ drawn = <<>>
    /\ esc_run = 0
    /\ adv_left = NoFrame

CollectKey == \E ch \in WideKeys : get_user_input(ch, MaxTyped)

SpecInput == InitInput /\ [][CollectKey]_vars

----------------------------------------------------------------------------
(* The redraw of a menu: the short-status snippet below the option list.     *)
(* The program waits in a menu on a screen of curses_LINES rows, and the     *)
(* menu is redrawn with the lines `git status --short` printed.              *)

\* `start_row = 4 + len(menu_options) + 2`
StartRow(options) == 4 + Len(options) + 2

\* `available_rows = curses.LINES - (start_row + 2)`
AvailableRows(options, lines) == lines - (StartRow(options) + 2)

\* Python's s[:k]: the first k items, or all but the last -k when k < 0
SliceTo(s, k) ==
    IF k >= 0 THEN SubSeq(s, 1, IF k < Len(s) THEN k ELSE Len(s))
    ELSE SubSeq(s, 1, IF Len(s) + k > 0 THEN Len(s) + k ELSE 0)

\* `for i, line in enumerate(status_lines[:available_rows]): addstr(start_row + 1 + i, 2, line)`
DrawStatus(options, lines, out) ==
    [i \in 1..Len(SliceTo(out, AvailableRows(options, lines))) |-> StartRow(options) + 1 + (i - 1)]

ActiveOptions == IF pc = "advanced" THEN adv_options ELSE menu_options

\* the lines `git status --short` can print
StatusOutputs == {[i \in 1..n |-> i] : n \in 0..MaxStatus}

redraw(out) ==
    /\ pc \in {"main", "advanced"}
    /\ status_lines' = out
    /\ drawn' = DrawStatus(ActiveOptions, curses_LINES, out)
    /\ UNCHANGED <<pc, main_row, adv_row, main_result, adv_result, handler, prompt,
                   input_str, echo, rets, typed, title, repo_name, issued, screen, key,
                   nav_base, nav_up, nav_down, exit_code, endwin, curses_LINES, esc_run,
                   adv_left>>

\* a menu waits on a screen on which its option list and the separator fit
InitRedraw ==
    /\ \/ pc = "main" /\ main_row = 0 /\ adv_row = NoFrame /\ key = NoKey
       \/ pc = "advanced" /\ main_row = 3 /\ adv_row = 0 /\ key = KEY_LF
    /\ curses_LINES \in (StartRow(ActiveOptions) + 1)..MaxLines
    /\ main_result = "unbound"
    /\ adv_result = "unbound"
    /\ handler = "none"
    /\ prompt = "none"
    /\ input_str = <<>>
    /\ echo = FALSE
    /\ rets = <<>>
    /\ typed = <<>>
    /\ title = None
    /\ repo_name = None
    /\ issued = <<>>
    /\ screen = <<>>
    /\ nav_base = IF pc = "advanced" THEN adv_row ELSE main_row
    /\ nav_up = 0
    /\ nav_down = 0
    /\ exit_code = NoExit
    /\ endwin = FALSE
    /\ status_lines = <<>>
    /\ drawn = <<>>
    /\ esc_run = 0
    /\ adv_left = NoFrame

Redraw == \E out \in StatusOutputs : redraw(out)

SpecRedraw == InitRedraw /\ [][Redraw]_vars

----------------------------------------------------------------------------
(* Properties *)

Last(s) == s[Len(s)]
Front(s) == SubSeq(s, 1, Len(s) - 1)

BackKeys == {KEY_ESC, KEY_LEFT}
EnterKeys == {KEY_LF, KEY_CR}
BackspaceKeys == {KEY_BACKSPACE, KEY_DEL, KEY_BS}
Printable == 32..126

\* the menu loop a running handler returns to, and that loop's variables
CallerMenu == IF adv_row # NoFrame THEN "advanced" ELSE "main"
CallerRow == IF adv_row # NoFrame THEN adv_row ELSE main_row
CallerRowNext == IF adv_row # NoFrame THEN adv_row' ELSE main_row'
CallerResultNext == IF adv_row # NoFrame THEN adv_result' ELSE main_result'

\* this step ends an input session with the value v
SessionEnds(v) == pc = "input" /\ Len(rets') = Len(rets) + 1 /\ Last(rets') = v

\* this step ends an input session
SessionEnded == pc = "input" /\ Len(rets') = Len(rets) + 1

\* this step returns from a handler to the menu loop that called it
HandlerReturns ==
    /\ pc' = CallerMenu
    /\ \/ pc \in {"input", "ack"}
       \/ pc = pc' /\ IsConfirmKey(key')

\* the buffer a sequence of printable characters and backspaces leaves
RECURSIVE BufferOf(_)
BufferOf(keys) ==
    IF keys = <<>> THEN <<>>
    ELSE LET b == BufferOf(Front(keys))
         IN  IF Last(keys) \in BackspaceKeys
             THEN IF b = <<>> THEN <<>> ELSE Front(b)
             ELSE Append(b, Last(keys))

\* s without its leading and trailing whitespace
Trimmed(s) ==
    LET black == {i \in 1..Len(s) : s[i] \notin Whitespace}
    IN  IF black = {} THEN <<>>
        ELSE SubSeq(s, CHOOSE i \in black : \A j \in black : i <= j,
                       CHOOSE i \in black : \A j \in black : i >= j)

(* C1, as stated: leaving AdvancedMenu (Escape, Left or 'Back to Main Menu') *)
(* leaves MainMenu's selectedIndex as it was when AdvancedMenu was entered.  *)
C1_LeaveKeepsMainRow ==
    [][pc = "advanced" /\ pc' = "main" => main_row' = main_row]_vars

(* C1, amended: every way of leaving AdvancedMenu returns to MainMenu with   *)
(* main_menu's result set to True and MainMenu's selectedIndex reset to 0.   *)
C1_LeaveResetsMainRow ==
    [][pc = "advanced" /\ pc' = "main"
        => main_row' = 0 /\ main_result' = "True" /\ adv_row' = NoFrame]_vars

\* AdvancedMenu was entered from index 3 and has been left with Left
C1_Witness ==
    pc = "main" /\ key = KEY_LEFT /\ main_result = "True" /\ main_row = 0

(* C2: in both menus, after a run of Up and Down keys that began at index i, *)
(* selectedIndex is (i + #Down - #Up) mod n, n the number of options.        *)
C2_NavigationModulo ==
    /\ pc = "main" => main_row = (nav_base + nav_down - nav_up) % Len(menu_options)
    /\ pc = "advanced" => adv_row = (nav_base + nav_down - nav_up) % Len(adv_options)

\* Up, Up, Down from index 0 of the main menu: the run wrapped to index 3
C2_Witness ==
    pc = "main" /\ nav_base = 0 /\ nav_up = 2 /\ nav_down = 1 /\ main_row = 3

(* C3: when a handler called by a confirm key returns, selectedIndex of the  *)
(* calling menu is 0 if it returned True and is what it was before the       *)
(* confirm key if it returned False.                                         *)
C3_ConfirmResetsRow ==
    [][HandlerReturns =>
        /\ CallerResultNext \in {"True", "False"}
        /\ CallerResultNext = "True" => CallerRowNext = 0
        /\ CallerResultNext = "False" => CallerRowNext = CallerRow]_vars

\* Create Issue, called at index 2 of the main menu, returned False
C3_Witness ==
    pc = "main" /\ main_result = "False" /\ main_row = 2 /\ rets # <<>>

(* C4: Escape or Left at the getch of main_menu ends the program, whatever   *)
(* the selected index; no handler is called and no command is issued.        *)
C4_BackEndsProgram ==
    [][pc = "main" /\ key' \in BackKeys
        => /\ pc' = "exit"
           /\ exit_code' = 0
           /\ handler' = "none"
           /\ issued' = <<>>
           /\ main_row' = main_row]_vars

\* Left ended the program from index 2, after a handler had completed
C4_Witness ==
    pc = "exit" /\ key = KEY_LEFT /\ main_row = 2 /\ main_result = "True"

(* C5: a session in which Escape or Left is read is over, and it returned    *)
(* None, which is not the empty string and carries no typed character.       *)
C5_EscapeCancels ==
    (typed # <<>> /\ Last(typed) \in BackKeys)
        => /\ pc # "input"
           /\ rets # <<>>
           /\ Last(rets) = None
           /\ Last(rets) # Str(<<>>)
           /\ Last(rets).str = <<>>

\* 'a', 'b', Backspace, Escape
C5_Witness ==
    typed = <<CH_a, CH_b, KEY_BACKSPACE, KEY_ESC>> /\ rets = <<None>> /\ pc = "advanced"

(* C6: a session of printable characters and backspaces ended by Enter       *)
(* returns the trimmed buffer those keys leave.                              *)
C6_EnterReturnsTrimmedBuffer ==
    (/\ typed # <<>>
     /\ Last(typed) \in EnterKeys
     /\ \A i \in 1..(Len(typed) - 1) : typed[i] \in Printable \cup BackspaceKeys)
        => /\ pc # "input"
           /\ rets # <<>>
           /\ Last(rets) = Str(Trimmed(BufferOf(Front(typed))))

\* 'a', 'b', 'c', Backspace, Enter returns "ab"
C6_Witness ==
    /\ typed = <<CH_a, CH_b, CH_c, KEY_BACKSPACE, KEY_LF>>
    /\ rets = <<Str(<<CH_a, CH_b>>)>>
    /\ pc = "ack"

RequiredPrompts == {"commit_msg", "title", "pattern", "repo_name", "vis_input"}

(* C8, as stated: when a required prompt ends with None, the handler has     *)
(* issued no command before, issues none after, and returns False.           *)
C8_CancelNoCommandAtAll ==
    [][(prompt \in RequiredPrompts /\ SessionEnds(None))
        => /\ issued' = <<>>
           /\ pc' = CallerMenu
           /\ CallerResultNext = "False"]_vars

(* C8, amended: when a required prompt ends with None, the handler issues no *)
(* command after it and returns False; it has issued no command before it,   *)
(* except create_github_repo, which has issued stage-all and the commit of   *)
(* 'Initial commit' before its first prompt.                                 *)
C8_CancelNoCommandAfter ==
    [][(prompt \in RequiredPrompts /\ SessionEnds(None))
        => /\ issued' = issued
           /\ pc' = CallerMenu
           /\ CallerResultNext = "False"
           /\ handler # "create_github_repo" => issued' = <<>>
           /\ handler = "create_github_repo"
                => /\ Len(issued') = 2
                   /\ issued'[1].cmd = Cmd("git add -A", <<>>)
                   /\ issued'[2].cmd = Cmd("git commit -m 'Initial commit'", <<>>)]_vars

\* create_github_repo cancelled by Escape at its repository-name prompt
C8_Witness ==
    /\ pc = "advanced"
    /\ adv_row = 0
    /\ adv_result = "False"
    /\ typed = <<KEY_ESC>>
    /\ rets = <<None>>
    /\ Len(issued) = 2

(* C9: when any prompt of any handler ends with None, the handler issues no  *)
(* command after it and returns False, so the calling menu's selectedIndex   *)
(* is unchanged.                                                             *)
C9_AnyCancelAborts ==
    [][SessionEnds(None)
        => /\ issued' = issued
           /\ pc' = CallerMenu
           /\ CallerResultNext = "False"
           /\ CallerRowNext = CallerRow]_vars

(* C10: when the commit-message prompt of commit_and_push_all or of          *)
(* commit_changes is confirmed, the commit command carries "auto commit" if  *)
(* the trimmed input is empty and the trimmed input otherwise.               *)
C10_CommitMessage ==
    (pc = "ack" /\ handler \in {"commit_and_push_all", "commit_changes"})
        => LET m == Trimmed(BufferOf(Front(typed)))
           IN  /\ Len(issued) >= 2
               /\ issued[2].cmd =
                    Cmd("git commit -m \"{}\"",
                        <<IF m = <<>>
                          THEN <<97, 117, 116, 111, 32, 99, 111, 109, 109, 105, 116>>
                          ELSE m>>)

\* a message of one space, confirmed, in commit_changes
C10_Witness ==
    /\ pc = "ack"
    /\ handler = "commit_changes"
    /\ typed = <<CH_SPACE, KEY_LF>>
    /\ issued[2].cmd.args = <<AutoCommit>>

(* C11: in commit_and_push_all, when the commit returns a nonzero code with  *)
(* "nothing to commit" in its output, the handler draws 'Nothing to commit.' *)
(* and neither the error line nor the raw output, still issues the push,     *)
(* and returns True after the acknowledgment key.                            *)
C11_NothingToCommitProceeds ==
    [][(/\ pc = "ack"
        /\ handler = "commit_and_push_all"
        /\ issued[2].code # 0
        /\ issued[2].out = OutNothing)
        => /\ \E j \in 1..Len(screen) :
                 screen[j].row = 8 /\ screen[j].text = "Nothing to commit."
           /\ \A j \in 1..Len(screen) :
                 screen[j].text # "Error during commit:" /\ screen[j].row # 9
           /\ Len(issued) = 3
           /\ issued[3].cmd = Cmd("git push", <<>>)
           /\ key' # NoKey => pc' = "main" /\ main_result' = "True"]_vars

\* an empty commit followed by a push that failed
C11_Witness ==
    /\ pc = "ack"
    /\ handler = "commit_and_push_all"
    /\ issued[2].code = 1
    /\ issued[2].out = OutNothing
    /\ issued[3].code # 0

\* the handler bound to each option, by index
MainBound == <<"commit_and_push_all", "pull_all", "create_issue">>
AdvBound == <<"create_github_repo", "add_files", "commit_changes", "push_repo",
              "pull_repo", "git_status", "create_issue", "view_log", "show_diff">>

(* C12: a confirm key runs the handler bound to the option at the current    *)
(* selectedIndex and no other (index 3 of the main menu enters AdvancedMenu, *)
(* index 9 of the advanced menu leaves it); Up, Up, Down from index 0 of the *)
(* main menu selects index 3 and the confirm key enters AdvancedMenu.        *)
C12_ConfirmRunsSelected ==
    [][/\ (pc = "main" /\ IsConfirmKey(key'))
          => IF main_row = 3
             THEN pc' = "advanced" /\ handler' = "none" /\ issued' = <<>>
             ELSE pc' \in {"input", "ack"} /\ handler' = MainBound[main_row + 1]
       /\ (pc = "advanced" /\ IsConfirmKey(key'))
          => IF adv_row = 9
             THEN pc' = "main" /\ handler' = "none" /\ issued' = <<>>
             ELSE \/ pc' \in {"input", "ack"} /\ handler' = AdvBound[adv_row + 1]
                  \/ /\ adv_row = 0
                     /\ pc' = "advanced"
                     /\ adv_result' = "False"
                     /\ issued' = <<>>
       /\ (pc = "main" /\ nav_base = 0 /\ nav_up = 2 /\ nav_down = 1 /\ IsConfirmKey(key'))
          => main_row = 3 /\ pc' = "advanced"]_vars

\* AdvancedMenu entered with Enter before any handler has run
C12_Witness ==
    /\ pc = "advanced"
    /\ key = KEY_ENTER
    /\ main_row = 3
    /\ adv_row = 0
    /\ main_result = "unbound"

\* the commands of the current invocation that failed, the empty commit aside
FailedCommands ==
    {i \in 1..Len(issued) :
        /\ issued[i].code # 0
        /\ ~(/\ issued[i].cmd.template \in {"git commit -m \"{}\"",
                                            "git commit -m 'Initial commit'"}
             /\ issued[i].out = OutNothing)}

\* the error statuses on the screen: an error line with the raw output below it
ErrorStatuses ==
    {j \in 1..(Len(screen) - 1) :
        /\ screen[j].attr = "pair3"
        /\ screen[j + 1].attr = "pair3"
        /\ screen[j + 1].row = screen[j].row + 1}

(* C13: when a handler waits for its acknowledgment key, every command it    *)
(* issued that returned a nonzero code, the empty commit aside, has its own  *)
(* error status (error line plus raw output) on the screen.                  *)
C13_EveryFailureShown ==
    pc = "ack" => Cardinality(ErrorStatuses) >= Cardinality(FailedCommands)

C15_RowsInRange ==
    /\ main_row \in 0..3
    /\ adv_row # NoFrame => adv_row \in 0..9
    /\ pc = "advanced" => adv_row # NoFrame

\* both menus at their last option, after a handler of the advanced menu completed
C15_Witness ==
    pc = "advanced" /\ adv_row = 9 /\ main_row = 3 /\ adv_result = "True"

(* C16: in commit_and_push_all, once the commit message is confirmed, the    *)
(* handler issues exactly stage-all, commit, push, in this order and each    *)
(* once, whatever their return codes, then waits for one key and returns     *)
(* True without issuing anything more.                                       *)
C16_StageCommitPush ==
    [][/\ (/\ handler = "commit_and_push_all"
           /\ prompt = "commit_msg"
           /\ SessionEnded
           /\ ~Last(rets').none)
          => /\ issued = <<>>
             /\ pc' = "ack"
             /\ Len(issued') = 3
             /\ issued'[1].cmd.template = "git add -A"
             /\ issued'[2].cmd.template = "git commit -m \"{}\""
             /\ issued'[3].cmd.template = "git push"
       /\ (pc = "ack" /\ handler = "commit_and_push_all" /\ key' # NoKey)
          => /\ issued' = issued
             /\ pc' = "main"
             /\ main_result' = "True"
             /\ main_row' = 0]_vars

\* stage-all and commit both failed, and the push was still issued
C16_Witness ==
    /\ pc = "ack"
    /\ handler = "commit_and_push_all"
    /\ Len(issued) = 3
    /\ issued[1].code # 0
    /\ issued[2].code # 0
    /\ issued[2].out # OutNothing
    /\ issued[3].cmd.template = "git push"

(* C17: on a screen on which the option list and the status separator fit,   *)
(* a redraw draws at most max(0, LINES - (start_row + 2)) status lines, each *)
(* at a row below the screen height and at most LINES - 2.                   *)
C17_StatusClipped ==
    LET start == 4 + Len(ActiveOptions) + 2
        room == curses_LINES - (start + 2)
    IN  curses_LINES > start
          => /\ Len(drawn) <= (IF room > 0 THEN room ELSE 0)
             /\ \A i \in 1..Len(drawn) : drawn[i] < curses_LINES /\ drawn[i] <= curses_LINES - 2

(* C18: during an input session a key that is neither printable, nor         *)
(* backspace/delete, nor Enter, nor Escape/Left (Up, Down, Right, a function *)
(* key) leaves the buffer unchanged.                                         *)
C18_OtherKeysKeepBuffer ==
    [][pc = "input" /\ key' \notin (Printable \cup BackspaceKeys \cup EnterKeys \cup BackKeys)
         => input_str' = input_str]_vars

(* C19: Escape alone always quits: wherever the program is, once the last 4  *)
(* key events in a row were Escape the program has terminated.               *)
C19_FourEscapesQuit == esc_run >= 4 => pc = "exit"

C19_Witness == esc_run = 4 /\ pc = "exit" /\ key = KEY_ESC /\ exit_code = 0

(* C20: every entry into the advanced menu starts with selectedIndex 0,      *)
(* whatever index the advanced menu had when it was last left.               *)
C20_EntryAtRowZero ==
    [][pc = "main" /\ pc' = "advanced" => adv_row' = 0 /\ adv_result' = "unbound"]_vars

C20_Witness ==
    pc = "advanced" /\ adv_row = 0 /\ adv_left = 5 /\ IsConfirmKey(key) /\ nav_up = 0 /\ nav_down = 0

====
